---- MODULE Spec2Model ----
(***************************************************************************)
(* llmfit: the fit analyzer (ModelFit::analyze, score_fit, cpu_path,       *)
(* moe_offload_path), the MoE cost estimator of LlmModel and the ranker    *)
(* rank_models_by_fit.                                                     *)
(*                                                                         *)
(* Numbers.  The program computes in f64 gigabytes.  Here every memory     *)
(* figure is an exact rational held as an integer count of 1/160 GB, the   *)
(* smallest unit in which the estimator's factors (bytes per parameter in  *)
(* sixteenths, the 1.1 overhead) stay integral.  Parameter counts are in   *)
(* units of 2^30 parameters, so the division by 1024^3 is the change of    *)
(* unit.  x * 1.2 <= y is 6x <= 5y.  utilization_pct is a reduced fraction *)
(* [num, den]; den = 0 is +infinity.                                       *)
(***************************************************************************)
EXTENDS Integers, Sequences, FiniteSets

VARIABLES pc, system, model, fit, fits, rankIn, ranked

vars == <<pc, system, model, fit, fits, rankIn, ranked>>

(* ---------------------------- bounds ----------------------------------- *)
\* memory inputs range over 0, 0.5 GB, ..., MaxMem * 0.5 GB
MaxMem == 3
\* parameter counts range over 0 .. MaxParams (x 2^30 parameters)
MaxParams == 1
\* longest list handed to the ranker
MaxFits == 3

(* ---------------------------- units ------------------------------------ *)
GB == 160
MemStep == GB \div 2
MemVals == {k * MemStep : k \in 0..MaxMem}
ParamVals == 0..MaxParams

(* Option<T> *)
None == <<>>
Some(x) == <<x>>
is_some(o) == o /= <<>>
unwrap_or(o, d) == IF o = <<>> THEN d ELSE o[1]
Opt(S) == {None} \cup {Some(x) : x \in S}

(* ---------------------------- enums ------------------------------------ *)
FitLevel == {"Perfect", "Good", "Marginal", "TooTight"}
RunMode == {"Gpu", "MoeOffload", "CpuOffload", "CpuOnly"}

(* ---------------------------- inputs ----------------------------------- *)
Quantizations == {"Q8_0", "GPTQ"}

\* num_experts and active_experts are only ever printed; they are drawn together
ExpertCounts == {<<None, None>>, <<Some(8), Some(2)>>}

LlmModel(names, mems, params) ==
    { [ name |-> n, parameters_raw |-> praw, min_ram_gb |-> mn,
        recommended_ram_gb |-> rec, min_vram_gb |-> mv, quantization |-> q,
        is_moe |-> moe, num_experts |-> ec[1], active_experts |-> ec[2],
        active_parameters |-> ap ] :
        n \in names, praw \in Opt(params), mn \in mems,
        rec \in mems, mv \in Opt(mems), q \in Quantizations,
        moe \in BOOLEAN, ec \in ExpertCounts, ap \in Opt(params) }

\* data model: recommended_ram_gb >= min_ram_gb; a dense model carries either
\* no MoE figures or a full set of them
Models == { m \in LlmModel({"m"}, MemVals, ParamVals) :
              /\ m.recommended_ram_gb >= m.min_ram_gb
              /\ m.is_moe
                    \/ /\ m.active_parameters = None
                       /\ m.parameters_raw = None
                       /\ m.num_experts = None
                    \/ /\ m.active_parameters /= None
                       /\ m.parameters_raw = m.active_parameters
                       /\ m.num_experts /= None }

Gpus(mems) ==
    { <<FALSE, None, FALSE>> } \cup
    { <<TRUE, v, u>> : v \in Opt(mems), u \in BOOLEAN }

SystemSpecs(mems) ==
    { [ total_ram_gb |-> MaxMem * MemStep, available_ram_gb |-> a,
        total_cpu_cores |-> c, has_gpu |-> g[1], gpu_vram_gb |-> g[2],
        unified_memory |-> g[3] ] :
        a \in mems, c \in {2, 4}, g \in Gpus(mems) }

Systems == SystemSpecs(MemVals)

(* ---------------------------- models.rs -------------------------------- *)
\* bytes per parameter, in sixteenths of a byte
quant_bpp(self) ==
    CASE self.quantization = "F32" -> 64
      [] self.quantization \in {"F16", "BF16"} -> 32
      [] self.quantization = "Q8_0" -> 16
      [] self.quantization = "Q6_K" -> 12
      [] self.quantization = "Q5_K_M" -> 10
      [] self.quantization \in {"Q4_K_M", "Q4_0"} -> 8
      [] self.quantization = "Q3_K_M" -> 7
      [] self.quantization = "Q2_K" -> 5
      [] OTHER -> 8

Max(a, b) == IF a >= b THEN a ELSE b

\* size_gb = active_params * bpp / 2^30 is active * bpp16 * 10 units;
\* (size_gb * 1.1).max(0.5) is max(active * bpp16 * 11, GB / 2)
moe_active_vram_gb(self) ==
    IF ~self.is_moe THEN None
    ELSE IF self.active_parameters = None THEN None
    ELSE Some(Max(self.active_parameters[1] * quant_bpp(self) * 11, GB \div 2))

\* moe_offloaded_ram_gb without the clamp at zero
moe_offloaded_ram_gb_unclamped(self) ==
    IF ~self.is_moe THEN None
    ELSE IF self.active_parameters = None THEN None
    ELSE IF self.parameters_raw = None THEN None
    ELSE Some((self.parameters_raw[1] - self.active_parameters[1])
                 * quant_bpp(self) * 10)

moe_offloaded_ram_gb(self) ==
    IF ~self.is_moe THEN None
    ELSE IF self.active_parameters = None THEN None
    ELSE IF self.parameters_raw = None THEN None
    ELSE LET inactive == self.parameters_raw[1] - self.active_parameters[1]
         IN  IF inactive <= 0 THEN Some(0)
             ELSE Some(inactive * quant_bpp(self) * 10)

(* ---------------------------- fit.rs ----------------------------------- *)
\* the (RunMode, f64, f64) a branch yields, with the notes it pushed
Path(mode, required, available, notes) ==
    [run_mode |-> mode, mem_required |-> required,
     mem_available |-> available, notes |-> notes]

\* score_fit without the early return on mem_required > mem_available
score_fit_no_early_return(mem_required, mem_available, recommended, run_mode) ==
    CASE run_mode = "Gpu" ->
           IF recommended <= mem_available THEN "Perfect"
           ELSE IF 5 * mem_available >= 6 * mem_required THEN "Good"
           ELSE "Marginal"
      [] run_mode \in {"MoeOffload", "CpuOffload"} ->
           IF 5 * mem_available >= 6 * mem_required THEN "Good"
           ELSE "Marginal"
      [] run_mode = "CpuOnly" -> "Marginal"

\* score_fit grading every run mode the way it grades Gpu
score_fit_uncapped(mem_required, mem_available, recommended, run_mode) ==
    IF mem_required > mem_available THEN "TooTight"
    ELSE IF recommended <= mem_available THEN "Perfect"
    ELSE IF 5 * mem_available >= 6 * mem_required THEN "Good"
    ELSE "Marginal"

\* score_fit with the CpuOnly arm left as unreachable!()
score_fit_cpu_unreachable(mem_required, mem_available, recommended, run_mode) ==
    IF mem_required > mem_available THEN "TooTight"
    ELSE CASE run_mode = "Gpu" ->
                IF recommended <= mem_available THEN "Perfect"
                ELSE IF 5 * mem_available >= 6 * mem_required THEN "Good"
                ELSE "Marginal"
           [] run_mode \in {"MoeOffload", "CpuOffload"} ->
                IF 5 * mem_available >= 6 * mem_required THEN "Good"
                ELSE "Marginal"
           [] run_mode = "CpuOnly" -> "panicked"

\* score_fit with the headroom comparison of the Gpu arm turned round
score_fit_good_when_tight(mem_required, mem_available, recommended, run_mode) ==
    IF mem_required > mem_available THEN "TooTight"
    ELSE CASE run_mode = "Gpu" ->
                IF recommended <= mem_available THEN "Perfect"
                ELSE IF 5 * mem_available <= 6 * mem_required THEN "Good"
                ELSE "Marginal"
           [] run_mode \in {"MoeOffload", "CpuOffload"} ->
                IF 5 * mem_available >= 6 * mem_required THEN "Good"
                ELSE "Marginal"
           [] run_mode = "CpuOnly" -> "Marginal"

\* score_fit asking for strictly more than 1.2 x the memory required
score_fit_strict_headroom(mem_required, mem_available, recommended, run_mode) ==
    IF mem_required > mem_available THEN "TooTight"
    ELSE CASE run_mode = "Gpu" ->
                IF recommended <= mem_available THEN "Perfect"
                ELSE IF 5 * mem_available > 6 * mem_required THEN "Good"
                ELSE "Marginal"
           [] run_mode \in {"MoeOffload", "CpuOffload"} ->
                IF 5 * mem_available > 6 * mem_required THEN "Good"
                ELSE "Marginal"
           [] run_mode = "CpuOnly" -> "Marginal"

score_fit(mem_required, mem_available, recommended, run_mode) ==
    IF mem_required > mem_available THEN "TooTight"
    ELSE CASE run_mode = "Gpu" ->
                IF recommended <= mem_available THEN "Perfect"
                ELSE IF 5 * mem_available >= 6 * mem_required THEN "Good"
                ELSE "Marginal"
           [] run_mode = "MoeOffload" ->
                IF 5 * mem_available >= 6 * mem_required THEN "Good"
                ELSE "Marginal"
           [] run_mode = "CpuOffload" ->
                IF 5 * mem_available >= 6 * mem_required THEN "Good"
                ELSE "Marginal"
           [] run_mode = "CpuOnly" -> "Marginal"

\* cpu_path measuring the model by its VRAM requirement
cpu_path_min_vram(mdl, sys, notes) ==
    Path("CpuOnly", unwrap_or(mdl.min_vram_gb, mdl.min_ram_gb),
         sys.available_ram_gb,
         notes \o <<"CPU-only: model loaded into system RAM">>
               \o (IF mdl.is_moe
                   THEN <<"MoE architecture, but expert offloading requires a GPU">>
                   ELSE <<>>))

cpu_path(mdl, sys, notes) ==
    Path("CpuOnly", mdl.min_ram_gb, sys.available_ram_gb,
         notes \o <<"CPU-only: model loaded into system RAM">>
               \o (IF mdl.is_moe
                   THEN <<"MoE architecture, but expert offloading requires a GPU">>
                   ELSE <<>>))

\* moe_offload_path testing only the RAM side of the offload
moe_offload_path_unchecked_vram(mdl, sys, system_vram, total_vram, notes) ==
    LET moe_vram == moe_active_vram_gb(mdl)
        offloaded_gb == unwrap_or(moe_offloaded_ram_gb(mdl), 0)
    IN  IF is_some(moe_vram) /\ offloaded_gb <= sys.available_ram_gb
        THEN Path("MoeOffload", moe_vram[1], system_vram,
                  notes \o <<"MoE: experts active in VRAM",
                             "Inactive experts offloaded to system RAM">>)
        ELSE IF mdl.min_ram_gb <= sys.available_ram_gb
        THEN Path("CpuOffload", mdl.min_ram_gb, sys.available_ram_gb,
                  notes \o <<"MoE: insufficient VRAM for expert offloading",
                             "Spilling entire model to system RAM",
                             "Performance will be significantly reduced">>)
        ELSE Path("Gpu", total_vram, system_vram,
                  notes \o <<"Insufficient VRAM and system RAM",
                             "Need VRAM (full) or (MoE offload) + RAM">>)

\* moe_offload_path reporting the shortfall against the active-expert figure
moe_offload_path_active_shortfall(mdl, sys, system_vram, total_vram, notes) ==
    LET moe_vram == moe_active_vram_gb(mdl)
        offloaded_gb == unwrap_or(moe_offloaded_ram_gb(mdl), 0)
    IN  IF is_some(moe_vram) /\ moe_vram[1] <= system_vram
                             /\ offloaded_gb <= sys.available_ram_gb
        THEN Path("MoeOffload", moe_vram[1], system_vram,
                  notes \o <<"MoE: experts active in VRAM",
                             "Inactive experts offloaded to system RAM">>)
        ELSE IF mdl.min_ram_gb <= sys.available_ram_gb
        THEN Path("CpuOffload", mdl.min_ram_gb, sys.available_ram_gb,
                  notes \o <<"MoE: insufficient VRAM for expert offloading",
                             "Spilling entire model to system RAM",
                             "Performance will be significantly reduced">>)
        ELSE Path("Gpu", unwrap_or(moe_vram, total_vram), system_vram,
                  notes \o <<"Insufficient VRAM and system RAM",
                             "Need VRAM (full) or (MoE offload) + RAM">>)

moe_offload_path(mdl, sys, system_vram, total_vram, notes) ==
    LET moe_vram == moe_active_vram_gb(mdl)
        offloaded_gb == unwrap_or(moe_offloaded_ram_gb(mdl), 0)
    IN  IF is_some(moe_vram) /\ moe_vram[1] <= system_vram
                             /\ offloaded_gb <= sys.available_ram_gb
        THEN Path("MoeOffload", moe_vram[1], system_vram,
                  notes \o <<"MoE: experts active in VRAM",
                             "Inactive experts offloaded to system RAM">>)
        ELSE IF mdl.min_ram_gb <= sys.available_ram_gb
        THEN Path("CpuOffload", mdl.min_ram_gb, sys.available_ram_gb,
                  notes \o <<"MoE: insufficient VRAM for expert offloading",
                             "Spilling entire model to system RAM",
                             "Performance will be significantly reduced">>)
        ELSE Path("Gpu", total_vram, system_vram,
                  notes \o <<"Insufficient VRAM and system RAM",
                             "Need VRAM (full) or (MoE offload) + RAM">>)

\* the unified branch falling back to the CPU when the pool is too small
unified_path_cpu_fallback(mdl, sys, min_vram, notes) ==
    IF is_some(sys.gpu_vram_gb)
          /\ ~(min_vram > sys.gpu_vram_gb[1]
               /\ mdl.min_ram_gb <= sys.available_ram_gb)
    THEN Path("Gpu", min_vram, sys.gpu_vram_gb[1],
              notes \o <<"Unified memory: GPU and CPU share the same pool">>
                    \o (IF mdl.is_moe
                        THEN <<"MoE: experts active (all share unified memory pool)">>
                        ELSE <<>>))
    ELSE cpu_path(mdl, sys, notes)

\* analyze, has_gpu && unified_memory
unified_path(mdl, sys, min_vram, notes) ==
    IF is_some(sys.gpu_vram_gb)
    THEN Path("Gpu", min_vram, sys.gpu_vram_gb[1],
              notes \o <<"Unified memory: GPU and CPU share the same pool">>
                    \o (IF mdl.is_moe
                        THEN <<"MoE: experts active (all share unified memory pool)">>
                        ELSE <<>>))
    ELSE cpu_path(mdl, sys, notes)

\* the discrete branch reporting the spill against min_vram
discrete_path_spill_min_vram(mdl, sys, system_vram, min_vram, notes) ==
    IF min_vram <= system_vram
    THEN Path("Gpu", min_vram, system_vram,
              notes \o <<"GPU: model loaded into VRAM">>
                    \o (IF mdl.is_moe
                        THEN <<"MoE: all experts loaded in VRAM (optimal)">>
                        ELSE <<>>))
    ELSE IF mdl.is_moe
    THEN moe_offload_path(mdl, sys, system_vram, min_vram, notes)
    ELSE IF mdl.min_ram_gb <= sys.available_ram_gb
    THEN Path("CpuOffload", min_vram, sys.available_ram_gb,
              notes \o <<"GPU: insufficient VRAM, spilling to system RAM",
                         "Performance will be significantly reduced">>)
    ELSE Path("Gpu", min_vram, system_vram,
              notes \o <<"Insufficient VRAM and system RAM",
                         "Need VRAM or system RAM">>)

\* analyze, has_gpu && !unified_memory && gpu_vram_gb = Some(system_vram)
discrete_path(mdl, sys, system_vram, min_vram, notes) ==
    IF min_vram <= system_vram
    THEN Path("Gpu", min_vram, system_vram,
              notes \o <<"GPU: model loaded into VRAM">>
                    \o (IF mdl.is_moe
                        THEN <<"MoE: all experts loaded in VRAM (optimal)">>
                        ELSE <<>>))
    ELSE IF mdl.is_moe
    THEN moe_offload_path(mdl, sys, system_vram, min_vram, notes)
    ELSE IF mdl.min_ram_gb <= sys.available_ram_gb
    THEN Path("CpuOffload", mdl.min_ram_gb, sys.available_ram_gb,
              notes \o <<"GPU: insufficient VRAM, spilling to system RAM",
                         "Performance will be significantly reduced">>)
    ELSE Path("Gpu", min_vram, system_vram,
              notes \o <<"Insufficient VRAM and system RAM",
                         "Need VRAM or system RAM">>)

\* analyze, step 1: the execution path
select_path(mdl, sys, min_vram, notes) ==
    IF sys.has_gpu
    THEN IF sys.unified_memory
         THEN unified_path(mdl, sys, min_vram, notes)
         ELSE IF is_some(sys.gpu_vram_gb)
         THEN discrete_path(mdl, sys, sys.gpu_vram_gb[1], min_vram, notes)
         ELSE cpu_path(mdl, sys, notes \o <<"GPU detected but VRAM unknown">>)
    ELSE cpu_path(mdl, sys, notes)

RECURSIVE Gcd(_, _)
Gcd(a, b) == IF b = 0 THEN a ELSE Gcd(b, a % b)

\* utilization reported as 0 for an empty pool
utilization_zero_pool(mem_required, mem_available) ==
    IF mem_available > 0
    THEN LET g == Gcd(mem_required * 100, mem_available)
         IN  [num |-> (mem_required * 100) \div g, den |-> mem_available \div g]
    ELSE [num |-> 0, den |-> 1]

\* (mem_required / mem_available) * 100.0, or f64::INFINITY
utilization(mem_required, mem_available) ==
    IF mem_available > 0
    THEN LET g == Gcd(mem_required * 100, mem_available)
         IN  [num |-> (mem_required * 100) \div g, den |-> mem_available \div g]
    ELSE [num |-> 1, den |-> 0]

analyze(mdl, sys) ==
    LET min_vram == unwrap_or(mdl.min_vram_gb, mdl.min_ram_gb)
        path == select_path(mdl, sys, min_vram, <<>>)
        run_mode == path.run_mode
        fit_level == score_fit(path.mem_required, path.mem_available,
                               mdl.recommended_ram_gb, run_mode)
        notes == path.notes
                 \o (IF run_mode = "CpuOnly"
                     THEN <<"No GPU -- inference will be slow">> ELSE <<>>)
                 \o (IF run_mode \in {"CpuOffload", "CpuOnly"}
                        /\ sys.total_cpu_cores < 4
                     THEN <<"Low CPU core count may bottleneck inference">>
                     ELSE <<>>)
    IN  [ model |-> mdl,
          fit_level |-> fit_level,
          run_mode |-> run_mode,
          memory_required_gb |-> path.mem_required,
          memory_available_gb |-> path.mem_available,
          utilization_pct |-> utilization(path.mem_required, path.mem_available),
          notes |-> notes,
          moe_offloaded_gb |-> IF run_mode = "MoeOffload"
                               THEN moe_offloaded_ram_gb(mdl) ELSE None ]

(* ---------------------------- one analysis ----------------------------- *)
\* main.rs, Commands::Info: detect the hardware, pick a model, analyze it
Init ==
    /\ pc = "detected"
    /\ system \in Systems
    /\ model = None
    /\ fit = None
    /\ fits = <<>>
    /\ rankIn = <<>>
    /\ ranked = <<>>

Analyze ==
    /\ pc = "detected"
    /\ \E m \in Models :
          /\ model' = Some(m)
          /\ fit' = Some(analyze(m, system))
    /\ pc' = "analyzed"
    /\ UNCHANGED <<system, fits, rankIn, ranked>>

Next == Analyze

Spec == Init /\ [][Next]_vars

\* the inputs and the result of the analysis that has run
M == model[1]
H == system
R == fit[1]
Analyzed == pc = "analyzed"
MinVram == unwrap_or(M.min_vram_gb, M.min_ram_gb)

(* ---------------------------- the ranker ------------------------------- *)
\* f64::partial_cmp on two utilization figures (no NaN can arise: the only
\* division is guarded by mem_available > 0)
partial_cmp(a, b) ==
    IF a.num * b.den < b.num * a.den THEN Some("Less")
    ELSE IF a.num * b.den > b.num * a.den THEN Some("Greater")
    ELSE Some("Equal")

FitOrd(l) == CASE l = "Perfect" -> 0 [] l = "Good" -> 1
                 [] l = "Marginal" -> 2 [] l = "TooTight" -> 3
ModeOrd(m) == CASE m = "Gpu" -> 0 [] m = "MoeOffload" -> 1
                [] m = "CpuOffload" -> 2 [] m = "CpuOnly" -> 3

\* the closure comparing utilization the wrong way round
compare_utilization_descending(a, b) ==
    IF FitOrd(a.fit_level) /= FitOrd(b.fit_level)
    THEN (IF FitOrd(a.fit_level) < FitOrd(b.fit_level) THEN "Less" ELSE "Greater")
    ELSE IF ModeOrd(a.run_mode) /= ModeOrd(b.run_mode)
    THEN (IF ModeOrd(a.run_mode) < ModeOrd(b.run_mode) THEN "Less" ELSE "Greater")
    ELSE partial_cmp(b.utilization_pct, a.utilization_pct)[1]

\* the closure never answering Equal on the last key
compare_never_equal(a, b) ==
    IF FitOrd(a.fit_level) /= FitOrd(b.fit_level)
    THEN (IF FitOrd(a.fit_level) < FitOrd(b.fit_level) THEN "Less" ELSE "Greater")
    ELSE IF ModeOrd(a.run_mode) /= ModeOrd(b.run_mode)
    THEN (IF ModeOrd(a.run_mode) < ModeOrd(b.run_mode) THEN "Less" ELSE "Greater")
    ELSE IF partial_cmp(a.utilization_pct, b.utilization_pct)[1] = "Greater"
    THEN "Greater" ELSE "Less"

\* the closure handed to sort_by
compare(a, b) ==
    LET fit_cmp ==
            CASE a.fit_level = "Perfect" /\ b.fit_level = "Perfect" -> "Equal"
              [] a.fit_level = "Perfect" /\ b.fit_level /= "Perfect" -> "Less"
              [] a.fit_level /= "Perfect" /\ b.fit_level = "Perfect" -> "Greater"
              [] OTHER ->
            CASE a.fit_level = "Good" /\ b.fit_level = "Good" -> "Equal"
              [] a.fit_level = "Good" /\ b.fit_level /= "Good" -> "Less"
              [] a.fit_level /= "Good" /\ b.fit_level = "Good" -> "Greater"
              [] OTHER ->
            CASE a.fit_level = "Marginal" /\ b.fit_level = "Marginal" -> "Equal"
              [] a.fit_level = "Marginal" /\ b.fit_level /= "Marginal" -> "Less"
              [] a.fit_level /= "Marginal" /\ b.fit_level = "Marginal" -> "Greater"
              [] OTHER -> "Equal"
        mode_cmp ==
            CASE a.run_mode = "Gpu" /\ b.run_mode = "Gpu" -> "Equal"
              [] a.run_mode = "Gpu" /\ b.run_mode /= "Gpu" -> "Less"
              [] a.run_mode /= "Gpu" /\ b.run_mode = "Gpu" -> "Greater"
              [] OTHER ->
            CASE a.run_mode = "MoeOffload" /\ b.run_mode = "MoeOffload" -> "Equal"
              [] a.run_mode = "MoeOffload" /\ b.run_mode /= "MoeOffload" -> "Less"
              [] a.run_mode /= "MoeOffload" /\ b.run_mode = "MoeOffload" -> "Greater"
              [] OTHER ->
            CASE a.run_mode = "CpuOffload" /\ b.run_mode = "CpuOffload" -> "Equal"
              [] a.run_mode = "CpuOffload" /\ b.run_mode /= "CpuOffload" -> "Less"
              [] a.run_mode /= "CpuOffload" /\ b.run_mode = "CpuOffload" -> "Greater"
              [] OTHER -> "Equal"
    IN  IF fit_cmp /= "Equal" THEN fit_cmp
        ELSE IF mode_cmp /= "Equal" THEN mode_cmp
        ELSE partial_cmp(a.utilization_pct, b.utilization_pct)[1]

Front(s) == SubSeq(s, 1, Len(s) - 1)
Last(s) == s[Len(s)]

\* slice::sort_by is a stable sort: each element is placed after every
\* earlier element it does not compare Less than
RECURSIVE insert_tail(_, _)
insert_tail(v, x) ==
    IF v = <<>> \/ compare(x, Last(v)) /= "Less"
    THEN Append(v, x)
    ELSE Append(insert_tail(Front(v), x), Last(v))

RECURSIVE sort_by(_)
sort_by(v) ==
    IF v = <<>> THEN <<>>
    ELSE insert_tail(sort_by(Front(v)), Last(v))

RECURSIVE dedup(_)
dedup(v) ==
    IF Len(v) <= 1 THEN v
    ELSE IF compare(v[Len(v) - 1], Last(v)) = "Equal" THEN dedup(Front(v))
    ELSE Append(dedup(Front(v)), Last(v))

\* the ranker dropping entries that tie with their predecessor
rank_models_dedup(models) ==
    LET ranked_ == sort_by(models)
    IN  dedup(ranked_)

rank_models_by_fit(models) ==
    LET ranked_ == sort_by(models)
    IN  ranked_

(* ---------------------------- ranking a catalog ------------------------ *)
Profile(n, mn, rec, mv, moe) ==
    [ name |-> n, parameters_raw |-> Some(2), min_ram_gb |-> mn,
      recommended_ram_gb |-> rec, min_vram_gb |-> mv,
      quantization |-> "Q4_K_M", is_moe |-> moe, num_experts |-> Some(8),
      active_experts |-> Some(2), active_parameters |-> Some(1) ]

\* two copies, under different names, of a small dense model, a large dense
\* model and a large MoE model
RankModels ==
    UNION { { Profile(n, MemStep, GB, None, FALSE),
              Profile(n, GB, 3 * MemStep, Some(3 * MemStep), FALSE),
              Profile(n, GB, 3 * MemStep, Some(3 * MemStep), TRUE) } :
            n \in {"a", "b"} }

Machine(avail, gpu, vram, unified) ==
    [ total_ram_gb |-> 3 * MemStep, available_ram_gb |-> avail,
      total_cpu_cores |-> 4, has_gpu |-> gpu, gpu_vram_gb |-> vram,
      unified_memory |-> unified ]

RankSystems ==
    { Machine(GB, FALSE, None, FALSE),
      Machine(3 * MemStep, TRUE, Some(GB), FALSE),
      Machine(0, TRUE, Some(0), TRUE),
      Machine(0, TRUE, Some(MemStep), FALSE) }

InitRank ==
    /\ pc = "collect"
    /\ system \in RankSystems
    /\ model = None
    /\ fit = None
    /\ fits = <<>>
    /\ rankIn = <<>>
    /\ ranked = <<>>

\* run_fit: one analysis per catalog entry, collected into fits
Collect ==
    /\ pc = "collect"
    /\ Len(fits) < MaxFits
    /\ \E m \in RankModels, s \in RankSystems :
          /\ system' = s
          /\ fits' = Append(fits, analyze(m, s))
    /\ UNCHANGED <<pc, model, fit, rankIn, ranked>>

\* fits = rank_models_by_fit(fits)
Rank ==
    /\ pc = "collect"
    /\ rankIn' = fits
    /\ ranked' = rank_models_by_fit(fits)
    /\ pc' = "ranked"
    /\ UNCHANGED <<system, model, fit, fits>>

\* the ranked list is ranked again
Rerank ==
    /\ pc = "ranked"
    /\ rankIn' = ranked
    /\ ranked' = rank_models_by_fit(ranked)
    /\ pc' = "reranked"
    /\ UNCHANGED <<system, model, fit, fits>>

NextRank == Collect \/ Rank \/ Rerank

SpecRank == InitRank /\ [][NextRank]_vars

(* ---------------------------- properties ------------------------------- *)
Triple(r) == <<r.run_mode, r.memory_required_gb, r.memory_available_gb>>
DiscreteGpu == H.has_gpu /\ ~H.unified_memory /\ is_some(H.gpu_vram_gb)
UnifiedGpu == H.has_gpu /\ H.unified_memory /\ is_some(H.gpu_vram_gb)
Vram == H.gpu_vram_gb[1]

\* C1: in every result of analyze, memory_required_gb > memory_available_gb
\* implies fit_level = TooTight, whatever the run mode.
C1_OverCommittedIsTooTight ==
    Analyzed =>
        (R.memory_required_gb > R.memory_available_gb
            => R.fit_level = "TooTight")

\* an over-committed CPU-only result, where the run mode alone would say Marginal
C1_Witness ==
    /\ Analyzed
    /\ R.run_mode = "CpuOnly"
    /\ R.memory_required_gb > R.memory_available_gb
    /\ R.fit_level = "TooTight"

\* C2: the grade is capped by the run mode: CpuOnly is Marginal or TooTight,
\* MoeOffload and CpuOffload are never Perfect, so Perfect implies Gpu.
C2_GradeCappedByRunMode ==
    Analyzed =>
        /\ R.run_mode = "CpuOnly" => R.fit_level \in {"Marginal", "TooTight"}
        /\ R.run_mode \in {"MoeOffload", "CpuOffload"} => R.fit_level /= "Perfect"
        /\ R.fit_level = "Perfect" => R.run_mode = "Gpu"

\* a spill to RAM whose pool holds even the recommended memory, graded Good
C2_Witness ==
    /\ Analyzed
    /\ R.run_mode = "CpuOffload"
    /\ M.recommended_ram_gb <= R.memory_available_gb
    /\ R.fit_level = "Good"

\* C3: analyze is total: whatever the inputs, it yields one result with one of
\* the four run modes and one of the four fit levels, and no panic.
C3_AnalyzeTotal ==
    Analyzed =>
        /\ is_some(fit)
        /\ R.run_mode \in RunMode
        /\ R.fit_level \in FitLevel
        /\ R.model = M

\* the barest inputs: an MoE model with no MoE figures and no min_vram_gb on a
\* machine with zero RAM available and a GPU of unknown size
C3_Witness ==
    /\ Analyzed
    /\ M.is_moe /\ M.active_parameters = None /\ M.parameters_raw = None
    /\ M.min_vram_gb = None
    /\ H.has_gpu /\ H.gpu_vram_gb = None /\ H.available_ram_gb = 0
    /\ R.model = M /\ R.run_mode = "CpuOnly"

Range(v) == {v[i] : i \in 1..Len(v)}
Count(x, v) == Cardinality({i \in 1..Len(v) : v[i] = x})
Ranked == pc \in {"ranked", "reranked"}

\* C4: the output of rank_models_by_fit is a permutation of its input: same
\* length, and every result occurs as often in the output as in the input.
C4_RankIsPermutation ==
    Ranked =>
        /\ Len(ranked) = Len(rankIn)
        /\ \A x \in Range(rankIn) \cup Range(ranked) :
              Count(x, ranked) = Count(x, rankIn)

\* a list with a repeated result that the ranker had to reorder
C4_Witness ==
    /\ pc = "ranked"
    /\ Len(rankIn) = 3
    /\ ranked /= rankIn
    /\ \E i, j \in 1..Len(rankIn) : i < j /\ rankIn[i] = rankIn[j]

\* the sort key: grade, run-mode preference, utilization
Key(r) == <<FitOrd(r.fit_level), ModeOrd(r.run_mode), r.utilization_pct>>
UtilLeq(a, b) == a.num * b.den <= b.num * a.den
KeyLeq(a, b) ==
    \/ FitOrd(a.fit_level) < FitOrd(b.fit_level)
    \/ /\ FitOrd(a.fit_level) = FitOrd(b.fit_level)
       /\ \/ ModeOrd(a.run_mode) < ModeOrd(b.run_mode)
          \/ /\ ModeOrd(a.run_mode) = ModeOrd(b.run_mode)
             /\ UtilLeq(a.utilization_pct, b.utilization_pct)
WithKey(v, k) == LET has(x) == Key(x) = k IN SelectSeq(v, has)

\* C5: the output of rank_models_by_fit is in non-decreasing order of
\* (fit_level, run_mode, utilization_pct), and results equal on all three keys
\* keep the order they had in the input.
C5_RankStableSorted ==
    Ranked =>
        /\ \A i \in 1..(Len(ranked) - 1) : KeyLeq(ranked[i], ranked[i + 1])
        /\ \A x \in Range(rankIn) :
              WithKey(ranked, Key(x)) = WithKey(rankIn, Key(x))

\* a reordered list holding two different results with the same key and two
\* results that differ only in utilization
C5_Witness ==
    /\ pc = "ranked"
    /\ ranked /= rankIn
    /\ \E i, j \in 1..Len(rankIn) :
          i < j /\ rankIn[i] /= rankIn[j] /\ Key(rankIn[i]) = Key(rankIn[j])
    /\ \E i, j \in 1..Len(rankIn) :
          /\ rankIn[i].fit_level = rankIn[j].fit_level
          /\ rankIn[i].run_mode = rankIn[j].run_mode
          /\ rankIn[i].utilization_pct /= rankIn[j].utilization_pct

\* C6: ranking a ranked list changes nothing.
C6_RankIdempotent ==
    pc = "reranked" => ranked = rankIn

\* a list the first ranking reordered, with tied results, ranked a second time
C6_Witness ==
    /\ pc = "reranked"
    /\ rankIn /= fits
    /\ \E i, j \in 1..Len(rankIn) :
          i < j /\ rankIn[i] /= rankIn[j] /\ Key(rankIn[i]) = Key(rankIn[j])

\* C7: a dense model on a discrete GPU of known VRAM V runs on the GPU if
\* minVram <= V, else spills to RAM (CpuOffload, min_ram_gb against available
\* RAM) if min_ram_gb <= available_ram_gb, else is reported on the GPU
\* (minVram against V).
C7_DenseDiscretePath ==
    (Analyzed /\ ~M.is_moe /\ DiscreteGpu) =>
        Triple(R) =
            IF MinVram <= Vram THEN <<"Gpu", MinVram, Vram>>
            ELSE IF M.min_ram_gb <= H.available_ram_gb
            THEN <<"CpuOffload", M.min_ram_gb, H.available_ram_gb>>
            ELSE <<"Gpu", MinVram, Vram>>

\* the spill, for a model whose min_vram_gb and min_ram_gb differ
C7_Witness ==
    /\ Analyzed /\ ~M.is_moe /\ DiscreteGpu
    /\ MinVram > Vram
    /\ M.min_ram_gb <= H.available_ram_gb
    /\ M.min_ram_gb /= MinVram
    /\ R.run_mode = "CpuOffload"

\* C8: with no GPU, or a GPU whose VRAM size is unknown, the result is CpuOnly
\* with min_ram_gb required against available_ram_gb.
C8_CpuOnlyWithoutSizedGpu ==
    (Analyzed /\ (~H.has_gpu \/ H.gpu_vram_gb = None)) =>
        Triple(R) = <<"CpuOnly", M.min_ram_gb, H.available_ram_gb>>

\* an MoE model with a larger min_vram_gb on a unified machine of unknown pool
C8_Witness ==
    /\ Analyzed
    /\ H.has_gpu /\ H.unified_memory /\ H.gpu_vram_gb = None
    /\ M.is_moe /\ is_some(M.min_vram_gb) /\ MinVram /= M.min_ram_gb
    /\ R.run_mode = "CpuOnly"

\* C9: on unified memory with a known pool P the result is always Gpu with
\* minVram required against P.
C9_UnifiedAlwaysGpu ==
    (Analyzed /\ UnifiedGpu) => Triple(R) = <<"Gpu", MinVram, Vram>>

\* an MoE model too large for the pool although its min_ram_gb fits in RAM
C9_Witness ==
    /\ Analyzed /\ UnifiedGpu
    /\ M.is_moe
    /\ MinVram > Vram
    /\ M.min_ram_gb <= H.available_ram_gb
    /\ R.run_mode = "Gpu" /\ R.fit_level = "TooTight"

\* C10: an MoE model too large for a discrete GPU of known VRAM V is run as
\* MoeOffload exactly when the active-expert VRAM and the offloaded-expert RAM
\* are both computable, the first is <= V and the second <= available_ram_gb;
\* the result then has the active-expert VRAM required against V.
C10_MoeOffloadIffBothFit ==
    (Analyzed /\ M.is_moe /\ DiscreteGpu /\ MinVram > Vram) =>
        /\ R.run_mode = "MoeOffload" <=>
              /\ is_some(moe_active_vram_gb(M))
              /\ is_some(moe_offloaded_ram_gb(M))
              /\ moe_active_vram_gb(M)[1] <= Vram
              /\ moe_offloaded_ram_gb(M)[1] <= H.available_ram_gb
        /\ R.run_mode = "MoeOffload" =>
              /\ R.memory_required_gb = moe_active_vram_gb(M)[1]
              /\ R.memory_available_gb = Vram

\* C11: an MoE model lacking any one of num_experts, active_experts,
\* active_parameters or parameters_raw is never run as MoeOffload.
C11_NoOffloadWithoutAllMoeFields ==
    (Analyzed /\ M.is_moe
        /\ (M.num_experts = None \/ M.active_experts = None
              \/ M.active_parameters = None \/ M.parameters_raw = None))
        => R.run_mode /= "MoeOffload"

\* the MoE model too large for a discrete GPU, where the offload was not taken
MoeFallback ==
    Analyzed /\ M.is_moe /\ DiscreteGpu /\ MinVram > Vram
             /\ R.run_mode /= "MoeOffload"

\* C12 as stated: in the fallback from the MoE offload the result is CpuOffload
\* (min_ram_gb against available RAM) if min_ram_gb <= available_ram_gb, else
\* Gpu against VRAM with the active-expert VRAM cost, when computable, as the
\* memory required.
C12_FallbackSubstitutesActiveVram ==
    MoeFallback =>
        Triple(R) =
            IF M.min_ram_gb <= H.available_ram_gb
            THEN <<"CpuOffload", M.min_ram_gb, H.available_ram_gb>>
            ELSE <<"Gpu", unwrap_or(moe_active_vram_gb(M), MinVram), Vram>>

\* C12 amended: in the fallback from the MoE offload the result is CpuOffload
\* (min_ram_gb against available RAM) if min_ram_gb <= available_ram_gb, else
\* Gpu against VRAM with minVram, the full-model figure, as the memory required.
C12_FallbackIsDense ==
    MoeFallback =>
        Triple(R) =
            IF M.min_ram_gb <= H.available_ram_gb
            THEN <<"CpuOffload", M.min_ram_gb, H.available_ram_gb>>
            ELSE <<"Gpu", MinVram, Vram>>

\* insufficient everywhere, with an active-expert figure that differs from minVram
C12_Witness ==
    /\ MoeFallback
    /\ M.min_ram_gb > H.available_ram_gb
    /\ is_some(moe_active_vram_gb(M))
    /\ moe_active_vram_gb(M)[1] /= MinVram
    /\ R.run_mode = "Gpu" /\ R.memory_required_gb = MinVram

\* C13: when the memory required fits, the grade is: for Gpu, Perfect if
\* recommended_ram_gb <= available, else Good if available >= 1.2 x required,
\* else Marginal; for MoeOffload and CpuOffload, Good if available >= 1.2 x
\* required, else Marginal; for CpuOnly, Marginal.  For Gpu the pool compared
\* with recommended_ram_gb is the VRAM (or unified pool), not the system RAM.
C13_GradeTable ==
    (Analyzed /\ R.memory_required_gb <= R.memory_available_gb) =>
        LET required == R.memory_required_gb
            available == R.memory_available_gb
            headroom == 5 * available >= 6 * required
        IN  /\ R.run_mode = "Gpu" =>
                 /\ available = Vram
                 /\ R.fit_level =
                       IF M.recommended_ram_gb <= Vram THEN "Perfect"
                       ELSE IF headroom THEN "Good" ELSE "Marginal"
            /\ R.run_mode \in {"MoeOffload", "CpuOffload"} =>
                 R.fit_level = IF headroom THEN "Good" ELSE "Marginal"
            /\ R.run_mode = "CpuOnly" => R.fit_level = "Marginal"

\* a model on the GPU whose recommended memory fits the system RAM but not the
\* VRAM, and is therefore not Perfect
C13_Witness ==
    /\ Analyzed
    /\ R.run_mode = "Gpu"
    /\ R.memory_required_gb <= R.memory_available_gb
    /\ M.recommended_ram_gb <= H.available_ram_gb
    /\ M.recommended_ram_gb > Vram
    /\ R.fit_level \in {"Good", "Marginal"}

\* C14: moe_offloaded_gb is absent unless run_mode = MoeOffload, and with
\* run_mode = MoeOffload it is present and is the model's offloaded-expert RAM.
C14_OffloadedGbIffMoeOffload ==
    Analyzed =>
        /\ R.run_mode /= "MoeOffload" => R.moe_offloaded_gb = None
        /\ R.run_mode = "MoeOffload" =>
              /\ is_some(R.moe_offloaded_gb)
              /\ R.moe_offloaded_gb = moe_offloaded_ram_gb(M)

\* the utilization figures of the memory values in range
Utilizations == {utilization(a, b) : a \in MemVals, b \in MemVals}

\* C15: utilization_pct is required / available x 100 when available > 0 and
\* +infinity when available = 0, also for required = 0; an infinite utilization
\* is never ordered before a result of the same grade and run mode.
C15_Utilization ==
    Analyzed =>
        LET u == R.utilization_pct
        IN  /\ R.memory_available_gb > 0 =>
                 /\ u.den > 0
                 /\ u.num * R.memory_available_gb
                       = R.memory_required_gb * 100 * u.den
            /\ R.memory_available_gb = 0 =>
                 /\ u.den = 0 /\ u.num > 0
                 /\ \A v \in Utilizations :
                       compare(R, [R EXCEPT !.utilization_pct = v]) /= "Less"

\* nothing required of an empty pool: graded as fitting, utilization infinite
C15_Witness ==
    /\ Analyzed
    /\ R.memory_required_gb = 0 /\ R.memory_available_gb = 0
    /\ R.fit_level \in {"Perfect", "Good", "Marginal"}
    /\ R.utilization_pct.den = 0

\* C16: the active-expert VRAM is absent unless is_moe and active_parameters is
\* present, and otherwise at least 0.5 GB; the offloaded-expert RAM is absent
\* unless is_moe and both active_parameters and parameters_raw are present, and
\* otherwise never negative, and 0 when parameters_raw <= active_parameters.
C16_EstimatorClamps ==
    Analyzed =>
        LET active == moe_active_vram_gb(M)
            offloaded == moe_offloaded_ram_gb(M)
            has_active == M.is_moe /\ is_some(M.active_parameters)
            has_both == has_active /\ is_some(M.parameters_raw)
        IN  /\ ~has_active => active = None
            /\ has_active => is_some(active) /\ 2 * active[1] >= GB
            /\ ~has_both => offloaded = None
            /\ has_both =>
                 /\ is_some(offloaded) /\ offloaded[1] >= 0
                 /\ M.parameters_raw[1] <= M.active_parameters[1]
                       => offloaded[1] = 0

\* an offloaded MoE model declared with fewer parameters in all than active
C16_Witness ==
    /\ Analyzed
    /\ M.is_moe /\ is_some(M.active_parameters) /\ is_some(M.parameters_raw)
    /\ M.parameters_raw[1] < M.active_parameters[1]
    /\ R.run_mode = "MoeOffload"
    /\ R.moe_offloaded_gb = Some(0)

\* C17: CpuOffload is only chosen with min_ram_gb <= available_ram_gb and
\* MoeOffload only with active-expert VRAM <= VRAM, so in both the memory
\* required fits and the grade is Good or Marginal; on a discrete GPU of known
\* VRAM a TooTight result has run_mode = Gpu.
C17_OffloadOnlyWhenItFits ==
    Analyzed =>
        /\ R.run_mode = "CpuOffload" => M.min_ram_gb <= H.available_ram_gb
        /\ R.run_mode = "MoeOffload" =>
              /\ is_some(moe_active_vram_gb(M))
              /\ moe_active_vram_gb(M)[1] <= Vram
        /\ R.run_mode \in {"CpuOffload", "MoeOffload"} =>
              /\ R.memory_required_gb <= R.memory_available_gb
              /\ R.fit_level \in {"Good", "Marginal"}
        /\ (DiscreteGpu /\ R.fit_level = "TooTight") => R.run_mode = "Gpu"

\* an MoE model whose active experts alone exceed the VRAM and whose min_ram_gb
\* exceeds the RAM: reported on the GPU, TooTight
C17_Witness ==
    /\ Analyzed /\ DiscreteGpu /\ M.is_moe
    /\ is_some(moe_active_vram_gb(M))
    /\ moe_active_vram_gb(M)[1] > Vram
    /\ R.run_mode = "Gpu" /\ R.fit_level = "TooTight"

\* the same machine with its VRAM replaced
WithVram(v) == [H EXCEPT !.gpu_vram_gb = Some(v)]

\* C18 as stated: on a discrete GPU, more VRAM never gives a worse grade.
C18_GradeMonotoneInVram ==
    (Analyzed /\ DiscreteGpu) =>
        \A v \in {w \in MemVals : w >= Vram} :
            FitOrd(analyze(M, WithVram(v)).fit_level) <= FitOrd(R.fit_level)

\* C18 amended: on a discrete GPU, more VRAM never gives a worse grade as long
\* as the run mode selected stays the same.
C18_GradeMonotoneWithinRunMode ==
    (Analyzed /\ DiscreteGpu) =>
        \A v \in {w \in MemVals : w >= Vram} :
            LET more == analyze(M, WithVram(v))
            IN  more.run_mode = R.run_mode =>
                    FitOrd(more.fit_level) <= FitOrd(R.fit_level)

\* an offloaded MoE model that more VRAM lifts from Marginal to Good
C18_Witness ==
    /\ Analyzed /\ DiscreteGpu
    /\ R.run_mode = "MoeOffload" /\ R.fit_level = "Marginal"
    /\ \E v \in MemVals :
          /\ v > Vram
          /\ analyze(M, WithVram(v)).run_mode = "MoeOffload"
          /\ analyze(M, WithVram(v)).fit_level = "Good"

====
